---- MODULE Spec2Model ----
(***************************************************************************)
(* Tasq (src/src/Tasq.ts, lines 1-215): a queue of items driven through a  *)
(* list of callbacks.  The first callback is fired once per item, the      *)
(* others once per pass, each fed the data of the result before it.        *)
(*                                                                         *)
(* One step of the model is one synchronous stretch of the code: a public  *)
(* method call, or the part of runAsync that runs between two awaits.      *)
(* What the callbacks answer (a result, a break, a throw) and what the     *)
(* host calls between two stretches are the environment's choice.          *)
(***************************************************************************)
EXTENDS Integers, Sequences, FiniteSets, TLC

\* ------------------------------------------------------------------ bounds
MaxItems == 2    \* items appended over the engine's lifetime
MaxCalls == 2    \* run()/runAsync() calls over the engine's lifetime
MaxStages == 2   \* callbacks of the longest list registered

\* ------------------------------------------------------------------ values
\* JavaScript's undefined; items are 1, 2, ... in the order they were added.
undefined == 0

\* The values a callback may throw (or reject with).
Thrown == {-1}

\* A list of n callbacks; which function sits at a position is of no effect
\* on the engine, only the length of the list and the positions are.
Callbacks(n) == [i \in 1..n |-> "fn"]

VARIABLES
  blocking,       \* options.blocking
  nth,            \* this.nth
  index,          \* this.index
  callbackIndex,  \* this.callbackIndex
  running,        \* this.running
  current,        \* this.current
  items,          \* this.items
  callbacks,      \* this.callbacks
  onDone,         \* this.onDone is set
  onError,        \* this.onError is set
  runs,           \* the runAsync invocations suspended at an await, by age
  ran,            \* number of runAsync calls so far
  accepted,       \* number of them that went past the guard
  lastNth,        \* the nth the last of those was given
  lastReturn,     \* what the runAsync call that returned last resolved with
  called,         \* how often onDone and onError have been called
  lastCall,       \* the last call of onDone or onError, and whether it threw
  added,          \* number of items added so far
  cleared,        \* clear() has been called
  live,           \* items were added since the last callback was fired
  fired           \* the latest item the first callback was ever fired with

engine == <<nth, index, callbackIndex, running, current, items>>
handlers == <<onDone, onError>>
reports == <<called, lastCall>>
host == <<added, cleared, live>>
tally == <<ran, accepted, lastNth>>
vars == <<blocking, nth, index, callbackIndex, running, current, items,
          callbacks, onDone, onError, runs, ran, accepted, lastNth, lastReturn,
          called, lastCall, added, cleared, live, fired>>

\* ------------------------------------------------------------- the results
doneResult(n, its) == [nth |-> n, items |-> its]

runResult(n, its, error, didError) ==
  IF didError THEN [nth |-> n, items |-> its, error |-> error]
  ELSE [nth |-> n, items |-> its]

errorResult(n, its, idx, cbi) ==
  [nth |-> n, items |-> its, index |-> idx, callbackIndex |-> cbi]

\* Reading property f of a JavaScript object.
Prop(obj, f) == IF f \in DOMAIN obj THEN obj[f] ELSE undefined

\* What a callback fired with arg may settle with: nothing, data, a break,
\* or a throw (a rejection).
Outcomes(arg) ==
  {[kind |-> "return", break |-> FALSE, data |-> undefined],
   [kind |-> "return", break |-> FALSE, data |-> arg],
   [kind |-> "return", break |-> TRUE, data |-> undefined]}
  \cup {[kind |-> "throw", error |-> e] : e \in Thrown}

\* `(await callback(...)) || {}`: the working result a returned value gives.
result(out) == [break |-> out.break, data |-> out.data]

\* ------------------------------------------------------ runAsync's records
\* Invocation id of runAsync, suspended at the await of callback local,
\* which was fired with arg; pc says whether that callback has settled, out
\* with what.
Suspended(id, n, local, arg) ==
  [id |-> id, nth |-> n, callbackIndex |-> local, arg |-> arg,
   pc |-> "await", out |-> [kind |-> "none"]]

Insert(seq, i, x) ==
  [j \in 1..(Len(seq) + 1) |->
     IF j < i THEN seq[j] ELSE IF j = i THEN x ELSE seq[j - 1]]

Remove(seq, i) ==
  [j \in 1..(Len(seq) - 1) |-> IF j < i THEN seq[j] ELSE seq[j + 1]]

NoCall == [kind |-> "none"]
NoReturn == [call |-> 0, ret |-> "none"]

\* ---------------------------------------------------------------- Init
Init ==
  /\ blocking \in BOOLEAN
  /\ nth = 0
  /\ index = 0
  /\ callbackIndex = 0
  /\ running = FALSE
  /\ current = undefined
  /\ items = <<>>
  /\ callbacks = <<>>
  /\ onDone = FALSE
  /\ onError = FALSE
  /\ runs = <<>>
  /\ ran = 0
  /\ accepted = 0
  /\ lastNth = 0
  /\ lastReturn = NoReturn
  /\ called = [done |-> 0, error |-> 0]
  /\ lastCall = NoCall
  /\ added = 0
  /\ cleared = FALSE
  /\ live = FALSE
  /\ fired = undefined

\* ------------------------------------------------------ add, done, catch
add(n) ==
  /\ added + n <= MaxItems
  /\ items' = items \o [i \in 1..n |-> added + i]
  /\ added' = added + n
  /\ live' = (runs # <<>>)
  /\ UNCHANGED <<blocking, nth, index, callbackIndex, running, current,
                 callbacks, handlers, runs, tally, lastReturn, reports,
                 cleared, fired>>

done ==
  /\ ~onDone
  /\ onDone' = TRUE
  /\ UNCHANGED <<blocking, engine, callbacks, onError, runs, tally,
                 lastReturn, reports, host, fired>>

catch ==
  /\ ~onError
  /\ onError' = TRUE
  /\ UNCHANGED <<blocking, engine, callbacks, onDone, runs, tally, lastReturn,
                 reports, host, fired>>

\* ---------------------------------------------------------------- _clear
\* this.current after _clear, which looks at this.running as it is then.
clearedCurrent(isRunning) == IF ~isRunning THEN undefined ELSE current

\* The array _clear returns: everything that was in this.items.
\* (Variant: only the items the cursor has passed.)
splicedConsumed == SubSeq(items, 1, index)

spliced == items

\* (Variant: the cursor goes back to 0, the backlog stays.)
_clearKeepsItems(isRunning) ==
  /\ index' = 0
  /\ items' = items
  /\ current' = clearedCurrent(isRunning)

\* (Variant: the backlog is emptied, the cursor stays.)
_clearKeepsCursor(isRunning) ==
  /\ index' = index
  /\ items' = <<>>
  /\ current' = clearedCurrent(isRunning)

_clear(isRunning) ==
  /\ index' = 0
  /\ items' = <<>>
  /\ current' = clearedCurrent(isRunning)

\* (Variant: clear() empties the backlog and leaves the cursor.)
clearKeepsCursor ==
  /\ cleared' = TRUE
  /\ items' = <<>>
  /\ current' = clearedCurrent(running)
  /\ UNCHANGED <<blocking, nth, index, callbackIndex, running, callbacks,
                 handlers, runs, tally, lastReturn, reports, added, live, fired>>

clear ==
  /\ cleared' = TRUE
  /\ _clear(running)
  /\ UNCHANGED <<blocking, nth, callbackIndex, running, callbacks, handlers,
                 runs, tally, lastReturn, reports, added, live, fired>>

\* ---------------------------------------------------------------- do
\* do(callback, ...callbacks): first says whether callback is a function
\* (not null), k is the number of the callbacks after it.
registered(first, k) == IF first THEN Callbacks(k + 1) ELSE <<>>

do(first, k) ==
  /\ callbacks' = registered(first, k)
  /\ UNCHANGED <<blocking, engine, handlers, runs, tally, lastReturn, reports,
                 host, fired>>

\* ---------------------------------------------------------------- finish
\* finish(doneResult, errorResult, didError) for runAsync invocation id: the
\* handler that is set is called once; when it throws (or rejects) the catch
\* block logs the label with console.error and nothing else happens.  throws
\* is the handler's behaviour.
Call(kind, id, res, throws) ==
  [kind |-> kind, run |-> id, result |-> res, threw |-> throws, added |-> added]

\* (Variant: a throw of onDone is handed to onError.)
finishFallsBackToError(id, dRes, eRes, didError, throws) ==
  IF didError
  THEN IF onError
       THEN /\ called' = [called EXCEPT !.error = @ + 1]
            /\ lastCall' = Call("error", id, eRes, throws)
       ELSE /\ ~throws
            /\ UNCHANGED <<called, lastCall>>
  ELSE IF onDone
       THEN /\ called' = [called EXCEPT !.done = @ + 1,
                                        !.error = IF throws THEN @ + 1 ELSE @]
            /\ lastCall' = Call("done", id, dRes, throws)
       ELSE /\ ~throws
            /\ UNCHANGED <<called, lastCall>>

finish(id, dRes, eRes, didError, throws) ==
  IF didError
  THEN IF onError
       THEN /\ called' = [called EXCEPT !.error = @ + 1]
            /\ lastCall' = Call("error", id, eRes, throws)
       ELSE /\ ~throws
            /\ UNCHANGED <<called, lastCall>>
  ELSE IF onDone
       THEN /\ called' = [called EXCEPT !.done = @ + 1]
            /\ lastCall' = Call("done", id, dRes, throws)
       ELSE /\ ~throws
            /\ UNCHANGED <<called, lastCall>>

\* ---------------------------------------------------------------- finally
\* finally(nth, error, didError), called by invocation id of runAsync with
\* this.callbackIndex = cbi; left is what stays suspended.  runAsync returns
\* what finally returns.
finally(id, n, left, cbi, error, didError, throws) ==
  /\ nth' = 0
  /\ running' = FALSE
  /\ callbackIndex' = cbi
  /\ _clear(FALSE)
  /\ finish(id, doneResult(n, spliced), errorResult(n, spliced, index - 1, cbi),
            didError, throws)
  /\ lastReturn' = [call |-> id, ret |-> "value",
                    value |-> runResult(n, spliced, error, didError)]
  /\ runs' = left
  /\ live' = FALSE
  /\ fired' = fired

\* ------------------------------------------------- runAsync: the drain loop
\* The outer while loop, entered with working result res and
\* this.callbackIndex = cbi, up to the callback it fires next: callbackIndex
\* is the local constant of that iteration, next is this.callbackIndex after
\* the ++.  An iteration for the first callback with no item left fires
\* nothing and the loop goes on.
\* (Variant: the loop condition does not look at break.)
RECURSIVE whileIgnoringBreak(_, _, _)
whileIgnoringBreak(res, cbi, cbs) ==
  IF cbi < Len(cbs)
  THEN IF cbi = 0
       THEN IF index < Len(items)
            THEN [op |-> "call", callbackIndex |-> 0, next |-> 1]
            ELSE whileIgnoringBreak(res, 1, cbs)
       ELSE [op |-> "call", callbackIndex |-> cbi, next |-> cbi + 1]
  ELSE [op |-> "finally", callbackIndex |-> cbi, next |-> cbi]

\* (Variant: `this.callbackIndex` without the ++ for the later callbacks.)
RECURSIVE whileSameStage(_, _, _)
whileSameStage(res, cbi, cbs) ==
  IF ~res.break /\ cbi < Len(cbs)
  THEN IF cbi = 0
       THEN IF index < Len(items)
            THEN [op |-> "call", callbackIndex |-> 0, next |-> 1]
            ELSE whileSameStage(res, 1, cbs)
       ELSE [op |-> "call", callbackIndex |-> cbi, next |-> cbi]
  ELSE [op |-> "finally", callbackIndex |-> cbi, next |-> cbi]

RECURSIVE while(_, _, _)
while(res, cbi, cbs) ==
  IF ~res.break /\ cbi < Len(cbs)
  THEN IF cbi = 0
       THEN IF index < Len(items)
            THEN [op |-> "call", callbackIndex |-> 0, next |-> 1]
            ELSE while(res, 1, cbs)
       ELSE [op |-> "call", callbackIndex |-> cbi, next |-> cbi + 1]
  ELSE [op |-> "finally", callbackIndex |-> cbi, next |-> cbi]

\* Where the code goes when the await of the callback with local index
\* local gives res: the inner while loop fires the first callback again as
\* long as an item is left, whatever res says.
\* (Variant: the first callback is fired for one item per pass, an `if`
\* for the inner `while`.)
afterAwaitOnce(local, res, cbi, cbs) == while(res, cbi, cbs)

\* (Variant: the loop goes on from its own position, not from
\* this.callbackIndex.)
afterAwaitOwnCursor(local, res, cbi, cbs) ==
  IF local = 0 /\ index < Len(items)
  THEN [op |-> "call", callbackIndex |-> 0, next |-> cbi]
  ELSE while(res, local + 1, cbs)

\* (Variant: after any callback the first one is fired for the items left.)
afterAwaitDrainsBacklog(local, res, cbi, cbs) ==
  IF index < Len(items)
  THEN [op |-> "call", callbackIndex |-> 0, next |-> cbi]
  ELSE while(res, cbi, cbs)

afterAwait(local, res, cbi, cbs) ==
  IF local = 0 /\ index < Len(items)
  THEN [op |-> "call", callbackIndex |-> 0, next |-> cbi]
  ELSE while(res, cbi, cbs)

\* The value a callback is fired with: the next item for the first callback,
\* the data of the working result for the others.
\* (Variant: the later callbacks are fired with the current item.)
argumentCurrent(local, res) == IF local = 0 THEN items[index + 1] ELSE current

argument(local, res) == IF local = 0 THEN items[index + 1] ELSE res.data

\* Fire callback local for invocation id and suspend at its await; others
\* are the other suspended invocations, i is the place of this one among
\* them (by age).
invoke(id, n, others, i, local, next, res) ==
  /\ runs' = Insert(others, i, Suspended(id, n, local, argument(local, res)))
  /\ callbackIndex' = next
  /\ IF local = 0
     THEN /\ index' = index + 1
          /\ current' = items[index + 1]
          /\ fired' = items[index + 1]
     ELSE UNCHANGED <<index, current, fired>>
  /\ live' = FALSE
  /\ UNCHANGED <<items, lastReturn, reports>>

\* The guard of runAsync.
\* (Variant: the option read the wrong way round.)
isDroppedWhenNotBlocking == running /\ ~blocking

\* (Variant: no guard, every call is accepted.)
isDroppedNever == FALSE

isDropped == running /\ blocking

\* The working result the loop starts with.
\* (Variant: no look at the backlog, `let result = {}`.)
firstResultEmpty == [break |-> FALSE, data |-> undefined]

firstResult == [break |-> index >= Len(items), data |-> undefined]

\* `this.callbackIndex = 0`, the first thing every call does.
\* (Variant: the cursor is left where it is.)
callbackIndexOnEntryKept == callbackIndex

callbackIndexOnEntry == 0

\* runAsync(callback?, ...callbacks) up to its first await or its return;
\* withCb says whether a function was passed, k counts the ones after it.
\* run(...) is do(...) when a function is passed, then runAsync().
runAsync(withCb, k, throws) ==
  /\ ran < MaxCalls
  /\ onDone /\ onError
  /\ ran' = ran + 1
  /\ LET cbs == IF withCb THEN registered(TRUE, k) ELSE callbacks
         id == ran + 1
     IN /\ callbacks' = cbs
        /\ IF isDropped
           THEN /\ ~throws
                /\ callbackIndex' = callbackIndexOnEntry
                /\ lastReturn' = [call |-> id, ret |-> "undefined"]
                /\ UNCHANGED <<nth, index, running, current, items, runs,
                               accepted, lastNth, reports, live, fired>>
           ELSE LET d == while(firstResult, callbackIndexOnEntry, cbs)
                IN /\ accepted' = accepted + 1
                   /\ lastNth' = nth + 1
                   /\ IF d.op = "call"
                      THEN /\ ~throws
                           /\ nth' = nth + 1
                           /\ running' = TRUE
                           /\ invoke(id, nth + 1, runs, Len(runs) + 1, d.callbackIndex,
                                     d.next, firstResult)
                      ELSE finally(id, nth + 1, runs, d.next, undefined, FALSE,
                                   throws)
  /\ UNCHANGED <<blocking, handlers, added, cleared>>

\* The callback that suspended invocation runs[i] is awaiting settles.
settle(i, out) ==
  /\ runs[i].pc = "await"
  /\ runs' = [runs EXCEPT ![i] = [@ EXCEPT !.pc = "settled", !.out = out]]
  /\ UNCHANGED <<blocking, engine, callbacks, handlers, tally, lastReturn,
                 reports, host, fired>>

\* Invocation runs[i] goes on after its await, to its next await or to its
\* return.
resume(i, throws) ==
  /\ runs[i].pc = "settled"
  /\ LET me == runs[i]
         others == Remove(runs, i)
     IN IF me.out.kind = "throw"
        THEN finally(me.id, me.nth, others, callbackIndex, me.out.error, TRUE,
                     throws)
        ELSE LET d == afterAwait(me.callbackIndex, result(me.out), callbackIndex,
                                 callbacks)
             IN IF d.op = "call"
                THEN /\ ~throws
                     /\ invoke(me.id, me.nth, others, i, d.callbackIndex, d.next,
                               result(me.out))
                     /\ UNCHANGED <<nth, running>>
                ELSE finally(me.id, me.nth, others, d.next, undefined, FALSE,
                             throws)
  /\ UNCHANGED <<blocking, callbacks, handlers, tally, added, cleared>>

\* ---------------------------------------------------------------- Next
Add == \E n \in 1..MaxItems : add(n)
Done == done
Catch == catch
Clear == clear
Do == \E first \in BOOLEAN, k \in 0..(MaxStages - 1) : do(first, k)
RunAsync ==
  \E withCb \in BOOLEAN, k \in 0..(MaxStages - 1), throws \in BOOLEAN :
    /\ (~withCb => k = 0)
    /\ runAsync(withCb, k, throws)
Settle ==
  \E i \in DOMAIN runs : \E out \in Outcomes(runs[i].arg) : settle(i, out)
Resume == \E i \in DOMAIN runs, throws \in BOOLEAN : resume(i, throws)

Next == Add \/ Done \/ Catch \/ Clear \/ Do \/ RunAsync \/ Settle \/ Resume

Spec == Init /\ [][Next]_vars

\* The engine built with the default options ({blocking: true}).
InitBlocking == Init /\ blocking

SpecBlocking == InitBlocking /\ [][Next]_vars

\* The same engine when every callback fired settles in the end and the
\* event loop then runs the continuation of the await.
SpecBlockingFair == SpecBlocking /\ WF_vars(Settle) /\ WF_vars(Resume)

\* ------------------------------------------------------------------ claims
\* In a step: invocation runs[i] of runAsync goes on after its await.
Resumed(i) ==
  /\ runs[i].pc = "settled"
  /\ \A j \in DOMAIN runs' : runs'[j].id = runs[i].id => runs'[j].pc = "await"

\* In a step: invocation runs[i] of runAsync goes on and returns.
Returned(i) ==
  /\ runs[i].pc = "settled"
  /\ \A j \in DOMAIN runs' : runs'[j].id # runs[i].id

\* The callback runs[i] awaited has returned a result with break set.
Broke(i) ==
  /\ runs[i].pc = "settled"
  /\ runs[i].out.kind = "return"
  /\ runs[i].out.break

Threw(i) == runs[i].pc = "settled" /\ runs[i].out.kind = "throw"

Ids(n) == [i \in 1..n |-> i]

\* C1: in blocking mode a run/runAsync call is accepted exactly when no run
\* is active; a call made while a run is active resolves at once with
\* undefined, calls neither handler and starts nothing; so the handlers have
\* been called once per accepted run that has ended.
C1_DroppedCallsReportNothing ==
  /\ [](called.done + called.error + Len(runs) = accepted)
  /\ [][ran' = ran + 1 =>
          /\ (accepted' = accepted + 1) <=> (runs = <<>>)
          /\ runs # <<>> =>
               /\ lastReturn' = [call |-> ran', ret |-> "undefined"]
               /\ called' = called
               /\ runs' = runs
               /\ accepted' = accepted]_vars

C1_Witness ==
  /\ blocking
  /\ ran = 2
  /\ accepted = 1
  /\ runs = <<>>
  /\ called.done + called.error = 1

\* C2: with one accepted run and no clear(), the done handler is passed
\* every item added before the run ended, once each, in the order added.
C2_DoneListsEveryItem ==
  (lastCall.kind = "done" /\ accepted = 1 /\ ~cleared)
    => lastCall.result.items = Ids(lastCall.added)

C2_Witness ==
  /\ lastCall.kind = "done"
  /\ accepted = 1
  /\ ~cleared
  /\ ran = 2
  /\ lastCall.result.items = Ids(MaxItems)

\* In a step: invocation runs[i] is suspended again, at callback local
\* fired with arg.
FiredNext(i, local, arg) ==
  \E j \in DOMAIN runs' :
    /\ runs'[j].id = runs[i].id
    /\ runs'[j].pc = "await"
    /\ runs'[j].callbackIndex = local
    /\ runs'[j].arg = arg

\* In a step: onDone is called, once, for invocation id with list its, and
\* onError is not.
DoneCalled(id, its) ==
  /\ called' = [called EXCEPT !.done = @ + 1]
  /\ lastCall'.kind = "done"
  /\ lastCall'.run = id
  /\ lastCall'.result.items = its

\* In a step: onError is called, once, for invocation id, and onDone is not.
ErrorCalled(id) ==
  /\ called' = [called EXCEPT !.error = @ + 1]
  /\ lastCall'.kind = "error"
  /\ lastCall'.run = id

\* C3: when the first callback returns {break: true} for an item while items
\* not yet passed to it remain, the run fires no callback any more (neither
\* the first one for the remaining items nor a later one) and ends, and the
\* remaining items are removed with the others.
C3_BreakStopsFirstCallback ==
  [][\A i \in DOMAIN runs :
       (Broke(i) /\ runs[i].callbackIndex = 0 /\ index < Len(items)
          /\ Resumed(i))
         => (Returned(i) /\ items' = <<>>)]_vars

\* C4: when a callback other than the first returns {break: true}, the run
\* fires no callback any more and ends through onDone, not onError; every
\* item of the backlog, passed to the first callback or not, is removed and
\* is in the list onDone gets.
C4_BreakInLaterCallbackEndsRun ==
  [][\A i \in DOMAIN runs :
       (Broke(i) /\ runs[i].callbackIndex >= 1 /\ Resumed(i))
         => /\ Returned(i)
            /\ DoneCalled(runs[i].id, items)
            /\ items' = <<>>]_vars

C4_Witness ==
  \E i \in DOMAIN runs :
    /\ Broke(i)
    /\ runs[i].callbackIndex >= 1
    /\ runs[i].callbackIndex < Len(callbacks)
    /\ 1 <= index
    /\ index < Len(items)

\* C5: when a callback throws, the run fires no callback any more, onError
\* is called once with a result that carries the thrown value, onDone is
\* not called, and the backlog is emptied.
C5_ThrowReportsTheError ==
  [][\A i \in DOMAIN runs :
       (Threw(i) /\ Resumed(i))
         => /\ Returned(i)
            /\ ErrorCalled(runs[i].id)
            /\ Prop(lastCall'.result, "error") = runs[i].out.error
            /\ items' = <<>>]_vars

\* The list seq holds consecutive items, the last one being item last.
Contiguous(seq, last) ==
  \A j \in DOMAIN seq : seq[j] = last - Len(seq) + j

\* C6: when the first callback returns while items it was not yet passed are
\* in the backlog (such as items added while it was pending), the same run
\* fires it next with the first of them, before any other callback and
\* before the run ends; the list onDone gets holds the items in the order
\* they were added.
C6_AddedItemsGoToFirstCallback ==
  /\ [](lastCall.kind = "done"
          => Contiguous(lastCall.result.items, lastCall.added))
  /\ [][\A i \in DOMAIN runs :
          (runs[i].pc = "settled" /\ runs[i].out.kind = "return"
             /\ runs[i].callbackIndex = 0 /\ index < Len(items)
             /\ Resumed(i))
            => /\ FiredNext(i, 0, items[index + 1])
               /\ index' = index + 1
               /\ current' = items[index + 1]
               /\ items' = items
               /\ called' = called]_vars

C6_Witness ==
  \E i \in DOMAIN runs :
    /\ Len(runs) = 1
    /\ runs[i].pc = "settled"
    /\ runs[i].out.kind = "return"
    /\ runs[i].callbackIndex = 0
    /\ live
    /\ ~cleared
    /\ index < Len(items)

\* C7 as claimed: a run accepted with the cursor at or past the end of the
\* backlog, or with no callbacks, fires no callback and calls onDone once,
\* with the empty list in the first case and the queued items in the other.
C7_EmptyRunReportsEmptyList ==
  [][(accepted' = accepted + 1
        /\ (index >= Len(items) \/ callbacks' = <<>>))
       => /\ runs' = runs
          /\ DoneCalled(ran', IF index >= Len(items) THEN <<>> ELSE items)]_vars

\* C7 as amended: such a run fires no callback and calls onDone once with
\* all the items then in the backlog; in blocking mode the cursor is at or
\* past the end only when the backlog is empty, so the list is then empty.
C7_EmptyRunReportsBacklog ==
  [][(accepted' = accepted + 1
        /\ (index >= Len(items) \/ callbacks' = <<>>))
       => /\ runs' = runs
          /\ DoneCalled(ran', items)
          /\ items' = <<>>
          /\ (blocking /\ index >= Len(items)) => items = <<>>]_vars

C7_Witness ==
  /\ ran = 1
  /\ callbackIndex = 0
  /\ lastCall.kind = "done"
  /\ lastCall.run = 1
  /\ lastCall.result.items = Ids(MaxItems)

\* C8: the nth given to an accepted run is greater than the nth given to
\* the accepted run before it, so no two runs of an engine get the same.
C8_NthGrows ==
  [][accepted' = accepted + 1 => lastNth' > lastNth]_vars

\* C9: in blocking mode a run() call made while a callback of the active
\* run is pending fires nothing itself; once the pending callback has
\* returned without break, the active run starts over from the first
\* callback, which is fired with the items not yet passed to it (when there
\* are none, the second callback is next); the run ends with one onDone call
\* that lists every item added, in the order added.
C9_RerunAfterPendingCallback ==
  /\ []((lastCall.kind = "done" /\ accepted = 1 /\ ran > 1 /\ ~cleared)
          => (called.done = 1 /\ called.error = 0
                /\ lastCall.result.items = Ids(lastCall.added)))
  /\ [][(ran' = ran + 1 /\ runs # <<>>)
          => (runs' = runs /\ callbackIndex' = 0 /\ index' = index
                /\ called' = called)]_vars
  /\ [][\A i \in DOMAIN runs :
          (runs[i].pc = "settled" /\ runs[i].out.kind = "return"
             /\ ~runs[i].out.break /\ callbackIndex = 0
             /\ callbacks # <<>> /\ Resumed(i))
            => IF index < Len(items)
               THEN FiredNext(i, 0, items[index + 1])
               ELSE IF Len(callbacks) > 1
                    THEN FiredNext(i, 1, runs[i].out.data)
                    ELSE Returned(i) /\ DoneCalled(runs[i].id, items)]_vars

C9_Witness ==
  \E i \in DOMAIN runs :
    /\ blocking
    /\ runs[i].pc = "settled"
    /\ runs[i].out.kind = "return"
    /\ ~runs[i].out.break
    /\ runs[i].callbackIndex >= 1
    /\ callbackIndex = 0
    /\ index < Len(items)
    /\ ~cleared

\* C10: when onDone or onError throws, nothing else is called (onError is
\* not called because onDone threw), runAsync resolves with the run's
\* result, and the engine is as after any run: not running, the backlog
\* empty, the cursor 0.
C10_HandlerThrowIsContained ==
  [][(lastCall' # lastCall /\ lastCall'.threw)
       => /\ called'.done + called'.error = called.done + called.error + 1
          /\ lastCall'.kind = "done" => called'.error = called.error
          /\ lastCall'.kind = "error" => called'.done = called.done
          /\ lastReturn'.call = lastCall'.run
          /\ lastReturn'.ret = "value"
          /\ lastReturn'.value.nth = lastCall'.result.nth
          /\ lastReturn'.value.items = lastCall'.result.items
          /\ ~running'
          /\ items' = <<>>
          /\ index' = 0]_vars

C10_Witness ==
  /\ lastCall.kind = "done"
  /\ lastCall.threw
  /\ lastCall.result.items # <<>>
  /\ ~running
  /\ items = <<>>

\* C11: in blocking mode at most one run is active in every state, so at
\* most one callback is pending, and running is set exactly while a run is
\* active; a run is accepted only when the runs before it have all ended:
\* running is false, the cursor is 0 and each of them has called a handler.
C11_OneActiveRun ==
  /\ [](Len(runs) <= 1 /\ (running <=> runs # <<>>))
  /\ [][accepted' = accepted + 1
          => /\ runs = <<>>
             /\ ~running
             /\ index = 0
             /\ called.done + called.error = accepted]_vars

C11_Witness ==
  /\ blocking
  /\ accepted = 2
  /\ Len(runs) = 1
  /\ runs[1].id = 2
  /\ runs[1].pc = "await"
  /\ running

\* C12: when a callback throws, the callbackIndex of the result onError gets
\* is the position in the callback list of the callback that threw.
C12_ErrorNamesThrowingStage ==
  [][\A i \in DOMAIN runs :
       (Threw(i) /\ Resumed(i))
         => /\ lastCall'.kind = "error"
            /\ lastCall'.result.callbackIndex = runs[i].callbackIndex]_vars

\* In a step: the invocation at runs'[j] has fired the first callback.
FiredFirst(j) ==
  /\ runs'[j].pc = "await"
  /\ runs'[j].callbackIndex = 0
  /\ \A k \in DOMAIN runs :
       runs[k].id = runs'[j].id => runs[k].pc = "settled"

\* C13: in blocking mode, whatever the order of the add, run and dropped run
\* calls, an item is passed to the first callback at most once: the backlog
\* holds consecutive items, each once, and the first callback is only ever
\* fired with an item added after the one it was fired with last.
C13_ItemFiredOnce ==
  /\ [](Contiguous(items, added))
  /\ [][\A j \in DOMAIN runs' :
          FiredFirst(j) => /\ runs'[j].arg > fired
                           /\ runs'[j].arg <= added
                           /\ fired' = runs'[j].arg]_vars

\* A dropped call has set the cursor back and the active run has then gone
\* through the first callback's turn again.
C13_Witness ==
  /\ blocking
  /\ ran = 2
  /\ accepted = 1
  /\ Len(runs) = 1
  /\ runs[1].callbackIndex = 0
  /\ runs[1].arg = MaxItems
  /\ callbackIndex = 1
  /\ ~cleared

\* C14 as claimed: no callback but the first is fired twice in a run (so not
\* twice in a row), and it is fired with the data of the result the callback
\* fired just before it in that run has returned.
C14_LaterStageOnce ==
  [][\A i \in DOMAIN runs :
       Resumed(i)
         => \A j \in DOMAIN runs' :
              (runs'[j].id = runs[i].id /\ runs'[j].callbackIndex >= 1)
                => /\ runs'[j].callbackIndex # runs[i].callbackIndex
                   /\ runs'[j].arg = runs[i].out.data]_vars

\* C14 as amended: a callback other than the first is always fired with the
\* data of the result returned just before in that run; in a run during which
\* no run/runAsync call is made, after a callback other than the first only
\* callbacks at greater positions are fired, so each of them at most once.
C14_LaterStageOncePerPass ==
  [][\A i \in DOMAIN runs :
       Resumed(i)
         => \A j \in DOMAIN runs' :
              runs'[j].id = runs[i].id
                => /\ runs'[j].callbackIndex >= 1
                        => runs'[j].arg = runs[i].out.data
                   /\ (ran = runs[i].id /\ runs[i].callbackIndex >= 1)
                        => runs'[j].callbackIndex > runs[i].callbackIndex]_vars

C14_Witness ==
  \E i \in DOMAIN runs :
    /\ ran = runs[i].id
    /\ runs[i].callbackIndex >= 1
    /\ runs[i].arg # undefined
    /\ runs[i].pc = "settled"
    /\ runs[i].out.kind = "return"
    /\ ~runs[i].out.break

\* C15: every run/runAsync call sets the callback cursor to 0 before anything
\* else: after a call that fires nothing the cursor is 0, after one that
\* fires a callback that callback is the first one and the cursor is 1.  A
\* call dropped by the guard changes nothing else but the callback list (when
\* callbacks were passed): the backlog, its cursor, running, the current item
\* and nth are as before, nothing is fired and no handler is called.
C15_CallResetsCallbackIndex ==
  [][ran' = ran + 1
       => /\ IF runs' = runs
             THEN callbackIndex' = 0
             ELSE /\ callbackIndex' = 1
                  /\ runs'[Len(runs')].id = ran'
                  /\ runs'[Len(runs')].callbackIndex = 0
          /\ (running /\ blocking)
               => /\ runs' = runs
                  /\ items' = items
                  /\ index' = index
                  /\ running' = running
                  /\ current' = current
                  /\ nth' = nth
                  /\ called' = called
                  /\ callbacks' \in {callbacks}
                        \cup {registered(TRUE, k) : k \in 0..(MaxStages - 1)}]_vars

\* A call was dropped while the second callback was pending.
C15_Witness ==
  /\ blocking
  /\ ran = 2
  /\ accepted = 1
  /\ Len(runs) = 1
  /\ runs[1].callbackIndex = 1
  /\ callbackIndex = 0
  /\ index < Len(items)

\* C16: in blocking mode a run that ends (normally, by break or by a throw)
\* clears once, as the last thing it does: the invocation is gone, the
\* backlog is empty, the cursor 0 and running false, and one handler call has
\* been made for each run that ended; the run accepted next starts with the
\* cursor at 0 and a backlog of items added after that clear only.
C16_ClearedOncePerRun ==
  /\ [](runs = <<>> => (~running /\ index = 0
                          /\ called.done + called.error = accepted))
  /\ [][\A i \in DOMAIN runs :
          Returned(i)
            => /\ runs' = <<>>
               /\ items' = <<>>
               /\ index' = 0
               /\ ~running'
               /\ called'.done + called'.error
                    = called.done + called.error + 1]_vars
  /\ [][accepted' = accepted + 1
          => /\ index = 0
             /\ lastCall.kind # "none"
                  => \A j \in DOMAIN items : items[j] > lastCall.added
             /\ runs' = <<>> => (items' = <<>> /\ index' = 0 /\ ~running')]_vars

C16_Witness ==
  /\ blocking
  /\ accepted = 2
  /\ Len(runs) = 1
  /\ runs[1].id = 2
  /\ runs[1].arg = MaxItems
  /\ lastCall.kind = "error"
  /\ lastCall.result.items # <<>>

\* C17: a run that ends resets the current item only when no other run is
\* active then; while another accepted run has not ended (non-blocking mode)
\* the current item is left as it is.
C17_CurrentKeptWhileOthersRun ==
  [][\A i \in DOMAIN runs :
       Returned(i)
         => current' = IF Len(runs) > 1 THEN current ELSE undefined]_vars

\* C18: in blocking mode, when every callback fired settles and the calls of
\* add and run are finitely many, every accepted run ends: running becomes
\* false, and one handler call has been made for each accepted run.
C18_RunEnds ==
  (runs # <<>>)
    ~> (runs = <<>> /\ ~running /\ called.done + called.error = accepted)

C18_Witness ==
  /\ blocking
  /\ accepted = 2
  /\ runs = <<>>
  /\ ~running
  /\ called.done = 1
  /\ called.error = 1
  /\ fired = MaxItems

\* C19: in every state, blocking or not, and whatever the order of the add,
\* clear, do and run calls and of the callbacks' settling, the cursor is
\* between 0 and the length of the backlog, and the first callback has been
\* fired with an item of the backlog, never with what lies past its end.
C19_CursorWithinBacklog ==
  /\ 0 <= index
  /\ index <= Len(items)
  /\ \A i \in DOMAIN runs :
       runs[i].callbackIndex = 0 => runs[i].arg \in 1..added

\* The backlog was cleared and refilled under two overlapping runs, and the
\* cursor is at its end again.
C19_Witness ==
  /\ ~blocking
  /\ cleared
  /\ Len(runs) = 2
  /\ index >= 1
  /\ index = Len(items)

\* C20: items added while a callback other than the first is pending in the
\* only active run, with no run call made from then on (the callback cursor
\* is still past the pending callback), are not passed to the first
\* callback: the run fires it no more; when the run ends they are in the
\* list the handler gets and the backlog is emptied, so no later run passes
\* them either.
C20_LateItemsSkipFirstCallback ==
  [][\A i \in DOMAIN runs :
       (Len(runs) = 1 /\ runs[i].callbackIndex >= 1
          /\ callbackIndex > runs[i].callbackIndex /\ ran' = ran)
         => /\ fired' = fired
            /\ \A j \in DOMAIN runs' : ~FiredFirst(j)
            /\ Returned(i)
                 => /\ lastCall'.run = runs[i].id
                    /\ lastCall'.result.items = items
                    /\ items' = <<>>
                    /\ (live /\ ~cleared)
                         => /\ items # <<>>
                            /\ items[Len(items)] = added
                            /\ added > fired]_vars

C20_Witness ==
  \E i \in DOMAIN runs :
    /\ Len(runs) = 1
    /\ runs[i].callbackIndex >= 1
    /\ callbackIndex > runs[i].callbackIndex
    /\ runs[i].pc = "settled"
    /\ runs[i].out.kind = "return"
    /\ ~runs[i].out.break
    /\ live
    /\ ~cleared
    /\ index < Len(items)

====
